---------------------------- MODULE Spec2Model ----------------------------
(***************************************************************************)
(* The GHE notebook script (ghe.ipynb exported as a Python script): it     *)
(* downloads the navigation grid, selects the blobs of one day (or one     *)
(* 15-minute scan), reads and sums the 'rain' variable of every selected   *)
(* blob with the negative fill values zeroed, summarises, downsamples,     *)
(* clips a copy for plotting and finally removes its temporary directory.  *)
(*                                                                         *)
(* The script is one sequential thread of control; pc is its position.     *)
(* An uncaught Python exception ends the script: pc = "aborted".           *)
(* Arrays are sequences of rows of integers (exact arithmetic).            *)
(***************************************************************************)
EXTENDS Integers, Sequences, FiniteSets, TLC

VARIABLES
    pc,                \* position of the script
    error,             \* the exception that ended the script, or NoError
    errorAt,           \* the position at which it was raised
    store,             \* the blob container: blobs in its enumeration order
    single_time_point, \* line 100: the selection mode
    grid_shape,        \* lat_grid_raw.shape (== lon_grid_raw.shape)
    blob_urls,         \* the list of identifiers to read
    generator,         \* the blobs list_blobs has still to yield
    i_blob,            \* number of loop iterations completed
    dataset,           \* the netCDF dataset of the current blob
    rainfall_sample,   \* dataset['rain'][:] of the current blob
    rain_units,        \* Unbound until the first sample is folded
    heap,              \* the numpy arrays: object id -> [data, nan]
    rainfall,          \* references (object id, stride) into the heap
    rainfall_raw,
    Z,
    temp_dir_exists,   \* os.path.isdir(temp_dir)
    temp_files,        \* the files below temp_dir
    fetchLog,          \* history: the urls download_url was called on
    foldLog,           \* history: the urls whose sample was added
    listCalls,         \* history: number of list_blobs calls
    printedUnits,      \* history: units in the 'Ranfall ranges' line
    titleUnits         \* history: units in the plot title

vars == <<pc, error, errorAt, store, single_time_point, grid_shape, blob_urls,
          generator, i_blob, dataset, rainfall_sample, rain_units, heap,
          rainfall, rainfall_raw, Z, temp_dir_exists, temp_files, fetchLog,
          foldLog, listCalls, printedUnits, titleUnits>>

-----------------------------------------------------------------------------
(* Bounds of the model *)

\* the container holds at most this many blobs
MaxBlobs == 2

-----------------------------------------------------------------------------
(* Program constants *)

product == "rain_rate"
syear == "2020"
smonth == "04"
sday == "09"
stime == "0200"
ghe_blob_root == "https://ghe.blob.core.windows.net/noaa-ghe/"
grid_file_url == <<ghe_blob_root, "NPR.GEO.GHE.v1.Navigation.netcdf.gz">>
ds_factor == 10
UpperFactor == 10
\* lower_plot_threshold = n_files*0.01 = n_files / LowerDivisor
LowerDivisor == 100

Unbound == "<unbound>"
NoError == "<none>"
NoRef == [obj |-> "<none>", step |-> 0]
NoDataset == [kind |-> "<none>"]

-----------------------------------------------------------------------------
(* Arrays *)

Max(a, b) == IF a >= b THEN a ELSE b

Shape(A) == <<Len(A), IF Len(A) = 0 THEN 0 ELSE Len(A[1])>>

\* np.zeros(shape)
Zeros(shape) == [i \in 1..shape[1] |-> [j \in 1..shape[2] |-> 0]]

\* rainfall_sample[rainfall_sample < 0] = 0
MaskSentinel_keep(S) == S

MaskSentinel(S) ==
    [i \in 1..Len(S) |-> [j \in 1..Len(S[i]) |-> IF S[i][j] < 0 THEN 0 ELSE S[i][j]]]

\* numpy broadcasting of two 2-D shapes: per dimension equal, or one of them 1
Broadcastable(s, t) ==
    \A d \in 1..2 : s[d] = t[d] \/ s[d] = 1 \/ t[d] = 1

BroadcastShape(s, t) == <<Max(s[1], t[1]), Max(s[2], t[2])>>

BroadcastIndex(i, n) == IF n = 1 THEN 1 ELSE i

\* A + B of numpy, for Broadcastable shapes
Add_overwrite(A, B) ==
    LET sh == BroadcastShape(Shape(A), Shape(B))
    IN  [i \in 1..sh[1] |-> [j \in 1..sh[2] |->
            B[BroadcastIndex(i, Len(B))][BroadcastIndex(j, Len(B[1]))]]]

Add(A, B) ==
    LET sh == BroadcastShape(Shape(A), Shape(B))
    IN  [i \in 1..sh[1] |-> [j \in 1..sh[2] |->
            A[BroadcastIndex(i, Len(A))][BroadcastIndex(j, Len(A[1]))]
          + B[BroadcastIndex(i, Len(B))][BroadcastIndex(j, Len(B[1]))]]]

\* number of indices of 0, step, 2*step, ... below n
DecimatedLen(n, step) == (n + step - 1) \div step

\* A[::step, ::step]
Decimate(A, step) ==
    [i \in 1..DecimatedLen(Len(A), step) |->
        [j \in 1..DecimatedLen(Len(A[1]), step) |->
            A[(i - 1) * step + 1][(j - 1) * step + 1]]]


-----------------------------------------------------------------------------
(* The blob container and what its blobs hold *)

\* 'NPR.GEO.GHE.v1.S' + year + month + day + time + '.nc.gz'
Filename(y, m, d, t) == <<"NPR.GEO.GHE.v1.S", y, m, d, t, ".nc.gz">>

\* Data are stored as product/year/month/day/filename
BlobName(y, m, d, t) == <<product, y, m, d, Filename(y, m, d, t)>>

BlobNames ==
    { BlobName(syear, smonth, sday, "0000"),
      BlobName(syear, smonth, sday, "0200"),
      BlobName(syear, smonth, sday, "0215"),
      BlobName(syear, smonth, "10", "0200") }

Netcdf(rain, units) == [kind |-> "netcdf", rain |-> rain, units |-> units]

\* what a blob can hold: a scan with a 'rain' variable (of the grid's shape or
\* not), a file that is not gzip, a NetCDF file without a 'rain' variable
Contents ==
    { Netcdf(<< <<1, -1>>, <<0, 2>> >>, "mm"),
      Netcdf(<< <<3, 4>>, <<-1, -1>> >>, "mm"),
      Netcdf(<< <<0, 2>>, <<-1, 1>> >>, "in"),
      Netcdf(<< <<5, -1>> >>, "mm"),
      Netcdf(<< <<-1>>, <<6>> >>, "mm"),
      Netcdf(<< <<7>> >>, "in"),
      Netcdf(<< <<1, 2, 3>>, <<4, 5, 6>> >>, "mm"),
      [kind |-> "corrupt"],
      [kind |-> "norain"] }

Blobs == [name : BlobNames, content : Contents]

\* containers of at most MaxBlobs blobs with distinct names, in any order
Stores ==
    { s \in UNION { [1..n -> Blobs] : n \in 0..MaxBlobs } :
        \A i, j \in 1..Len(s) : s[i].name = s[j].name => i = j }

\* the shapes the navigation file's latitude/longitude can have
GridShapes == { <<2, 2>>, <<1, 2>> }

Url(name) == <<ghe_blob_root>> \o name

HasBlob(url) == \E k \in 1..Len(store) : Url(store[k].name) = url

ContentAt(url) ==
    store[CHOOSE k \in 1..Len(store) : Url(store[k].name) = url].content

\* name_starts_with=prefix
StartsWith_any(name, prefix) == TRUE

StartsWith(name, prefix) ==
    /\ Len(name) >= Len(prefix)
    /\ SubSeq(name, 1, Len(prefix)) = prefix

RECURSIVE ListBlobs(_, _)
\* the names list_blobs yields: those of the container that start with the
\* prefix, in the container's enumeration order
ListBlobs(s, prefix) ==
    IF s = <<>> THEN <<>>
    ELSE (IF StartsWith(Head(s).name, prefix) THEN <<Head(s).name>> ELSE <<>>)
         \o ListBlobs(Tail(s), prefix)

-----------------------------------------------------------------------------
(* The heap of numpy arrays *)

ObjIds == {"acc", "raw", "Z"}

\* nan: the cells (of the object) that hold NaN
NoArray == [data |-> <<>>, nan |-> {}]

Array(data) == [data |-> data, nan |-> {}]

\* a reference is an object and a stride: a whole array (stride 1) or the view
\* obj[::step, ::step]
Ref(obj, step) == [obj |-> obj, step |-> step]

BaseIndex(i, step) == (i - 1) * step + 1

\* the values seen through a reference
Deref(h, r) == Decimate(h[r.obj].data, r.step)

\* the cells of r's object that r shows
ViewCells(h, r) ==
    LET sh == Shape(Deref(h, r))
    IN  { <<BaseIndex(i, r.step), BaseIndex(j, r.step)>> :
            i \in 1..sh[1], j \in 1..sh[2] }

\* x.copy(): the object a copy of r is bound to
CopyTarget_alias(r, fresh) == r

CopyTarget(r, fresh) == Ref(fresh, 1)

\* the heap after  target = r.copy()
CopyInto(h, r, target) ==
    IF target = r THEN h
    ELSE LET sh == Shape(Deref(h, r))
         IN  [h EXCEPT ![target.obj] =
                [data |-> Deref(h, r),
                 nan |-> { c \in (1..sh[1]) \X (1..sh[2]) :
                             <<BaseIndex(c[1], r.step), BaseIndex(c[2], r.step)>>
                                \in h[r.obj].nan }]]

\* Z[Z > upper] = upper ; Z[Z < n_files*0.01] = np.nan   (in place, through z)
ClipInPlace(h, z, n_files) ==
    LET o == h[z.obj]
        upper == n_files * UpperFactor
        cells == ViewCells(h, z)
        clipped == [i \in 1..Len(o.data) |-> [j \in 1..Len(o.data[i]) |->
                      IF <<i, j>> \in cells /\ <<i, j>> \notin o.nan /\ o.data[i][j] > upper
                      THEN upper ELSE o.data[i][j]]]
    IN  [h EXCEPT ![z.obj] =
            [data |-> clipped,
             nan |-> o.nan \cup { c \in cells : c \notin o.nan
                                    /\ clipped[c[1]][c[2]] * LowerDivisor < n_files }]]

-----------------------------------------------------------------------------
(* The script *)

Init ==
    /\ pc = "grid_download"
    /\ error = NoError
    /\ errorAt = NoError
    /\ store \in Stores
    /\ single_time_point \in BOOLEAN
    /\ grid_shape = <<0, 0>>
    /\ blob_urls = <<>>
    /\ generator = <<>>
    /\ i_blob = 0
    /\ dataset = NoDataset
    /\ rainfall_sample = <<>>
    /\ rain_units = Unbound
    /\ heap = [o \in ObjIds |-> NoArray]
    /\ rainfall = NoRef
    /\ rainfall_raw = NoRef
    /\ Z = NoRef
    /\ temp_dir_exists = TRUE
    /\ temp_files = {}
    /\ fetchLog = <<>>
    /\ foldLog = <<>>
    /\ listCalls = 0
    /\ printedUnits = Unbound
    /\ titleUnits = Unbound

\* an uncaught exception: the script stops where it is, nothing else runs
Raise(e) ==
    /\ pc' = "aborted"
    /\ error' = e
    /\ errorAt' = pc
    /\ UNCHANGED <<store, single_time_point, grid_shape, blob_urls, generator,
                   i_blob, dataset, rainfall_sample, rain_units, heap, rainfall,
                   rainfall_raw, Z, temp_dir_exists, temp_files, fetchLog,
                   foldLog, listCalls, printedUnits, titleUnits>>

\* lines 74: grid_filename_gz = download_url(grid_file_url)
DownloadGrid ==
    /\ pc = "grid_download"
    /\ \/ /\ pc' = "grid_decode"
          /\ temp_files' = temp_files \cup {grid_file_url}
          /\ UNCHANGED <<error, errorAt, store, single_time_point, grid_shape,
                         blob_urls, generator, i_blob, dataset, rainfall_sample,
                         rain_units, heap, rainfall, rainfall_raw, Z,
                         temp_dir_exists, fetchLog, foldLog, listCalls,
                         printedUnits, titleUnits>>
       \/ Raise("URLError")

\* lines 75-79: gzip.open, netCDF4.Dataset, ['latitude'], ['longitude']
DecodeGrid ==
    /\ pc = "grid_decode"
    /\ \/ /\ pc' = "select"
          /\ grid_shape' \in GridShapes
          /\ UNCHANGED <<error, errorAt, store, single_time_point, blob_urls,
                         generator, i_blob, dataset, rainfall_sample, rain_units,
                         heap, rainfall, rainfall_raw, Z, temp_dir_exists,
                         temp_files, fetchLog, foldLog, listCalls, printedUnits,
                         titleUnits>>
       \/ Raise("BadGzipFile")
       \/ Raise("IndexError")

\* lines 102-109: one url built from the selection, no call to the container
SelectSingle ==
    /\ pc = "select"
    /\ single_time_point
    /\ blob_urls' = << <<ghe_blob_root, product, syear, smonth, sday,
                         Filename(syear, smonth, sday, stime)>> >>
    /\ pc' = "init_acc"
    /\ UNCHANGED <<error, errorAt, store, single_time_point, grid_shape,
                   generator, i_blob, dataset, rainfall_sample, rain_units, heap,
                   rainfall, rainfall_raw, Z, temp_dir_exists, temp_files,
                   fetchLog, foldLog, listCalls, printedUnits, titleUnits>>

\* lines 111-116: generator = list_blobs(name_starts_with=prefix); blob_urls = []
SelectDay ==
    /\ pc = "select"
    /\ ~single_time_point
    /\ listCalls' = listCalls + 1
    /\ generator' = ListBlobs(store, <<product, syear, smonth, sday>>)
    /\ blob_urls' = <<>>
    /\ pc' = "listing"
    /\ UNCHANGED <<error, errorAt, store, single_time_point, grid_shape, i_blob,
                   dataset, rainfall_sample, rain_units, heap, rainfall,
                   rainfall_raw, Z, temp_dir_exists, temp_files, fetchLog,
                   foldLog, printedUnits, titleUnits>>

\* lines 117-119: for blob in generator: blob_urls.append(ghe_blob_root + blob.name)
ListNext ==
    /\ pc = "listing"
    /\ \/ /\ generator # <<>>
          /\ blob_urls' = Append(blob_urls, Url(Head(generator)))
          /\ generator' = Tail(generator)
          /\ UNCHANGED <<pc, error, errorAt, store, single_time_point,
                         grid_shape, i_blob, dataset, rainfall_sample, rain_units,
                         heap, rainfall, rainfall_raw, Z, temp_dir_exists,
                         temp_files, fetchLog, foldLog, listCalls, printedUnits,
                         titleUnits>>
       \/ /\ generator = <<>>
          /\ pc' = "init_acc"
          /\ UNCHANGED <<error, errorAt, store, single_time_point, grid_shape,
                         blob_urls, generator, i_blob, dataset, rainfall_sample,
                         rain_units, heap, rainfall, rainfall_raw, Z,
                         temp_dir_exists, temp_files, fetchLog, foldLog,
                         listCalls, printedUnits, titleUnits>>
       \/ Raise("HttpResponseError")

\* lines 127-131: rainfall = np.zeros(lat_grid_raw.shape)
InitAccumulator ==
    /\ pc = "init_acc"
    /\ heap' = [heap EXCEPT !["acc"] = Array(Zeros(grid_shape))]
    /\ rainfall' = Ref("acc", 1)
    /\ i_blob' = 0
    /\ pc' = "loop"
    /\ UNCHANGED <<error, errorAt, store, single_time_point, grid_shape,
                   blob_urls, generator, dataset, rainfall_sample, rain_units,
                   rainfall_raw, Z, temp_dir_exists, temp_files, fetchLog,
                   foldLog, listCalls, printedUnits, titleUnits>>

\* the url of the loop's current iteration
CurrentUrl == blob_urls[i_blob + 1]

\* enumerate(): the index of the next iteration
NextIndex_skip(i) == i + 2

NextIndex(i) == i + 1

\* an exception raised inside the loop body is not caught there (no try/except
\* in lines 133-154): it ends the script
SampleFailure_skip(e) ==
    /\ pc' = "loop"
    /\ i_blob' = NextIndex(i_blob)
    /\ UNCHANGED <<error, errorAt, store, single_time_point, grid_shape,
                   blob_urls, generator, dataset, rainfall_sample, rain_units,
                   heap, rainfall, rainfall_raw, Z, temp_dir_exists, temp_files,
                   fetchLog, foldLog, listCalls, printedUnits, titleUnits>>

SampleFailure(e) == Raise(e)

\* rain_units = dataset['rain'].units
AssignUnits_first(old, new) == IF old = Unbound THEN new ELSE old

AssignUnits(old, new) == new

\* line 133 and the call of line 136: the next url of blob_urls, or the end of
\* the loop
NextBlob ==
    /\ pc = "loop"
    /\ \/ /\ i_blob < Len(blob_urls)
          /\ fetchLog' = Append(fetchLog, CurrentUrl)
          /\ pc' = "download"
          /\ UNCHANGED <<error, errorAt, store, single_time_point, grid_shape,
                         blob_urls, generator, i_blob, dataset, rainfall_sample,
                         rain_units, heap, rainfall, rainfall_raw, Z,
                         temp_dir_exists, temp_files, foldLog, listCalls,
                         printedUnits, titleUnits>>
       \/ /\ i_blob >= Len(blob_urls)
          /\ pc' = "summary"
          /\ UNCHANGED <<error, errorAt, store, single_time_point, grid_shape,
                         blob_urls, generator, i_blob, dataset, rainfall_sample,
                         rain_units, heap, rainfall, rainfall_raw, Z,
                         temp_dir_exists, temp_files, fetchLog, foldLog,
                         listCalls, printedUnits, titleUnits>>

\* lines 61-65 called from line 136: urlretrieve into temp_dir
DownloadSample ==
    /\ pc = "download"
    /\ \/ /\ HasBlob(CurrentUrl)
          /\ temp_files' = temp_files \cup {CurrentUrl}
          /\ pc' = "decode"
          /\ UNCHANGED <<error, errorAt, store, single_time_point, grid_shape,
                         blob_urls, generator, i_blob, dataset, rainfall_sample,
                         rain_units, heap, rainfall, rainfall_raw, Z,
                         temp_dir_exists, fetchLog, foldLog, listCalls,
                         printedUnits, titleUnits>>
       \/ /\ ~HasBlob(CurrentUrl)
          /\ SampleFailure("HTTPError")
       \/ SampleFailure("URLError")

\* lines 139-142: gzip.open, netCDF4.Dataset, dataset['rain'][:]
DecodeSample ==
    /\ pc = "decode"
    /\ LET content == ContentAt(CurrentUrl)
       IN  CASE content.kind = "netcdf" ->
                  /\ dataset' = content
                  /\ rainfall_sample' = content.rain
                  /\ pc' = "mask"
                  /\ UNCHANGED <<error, errorAt, store, single_time_point,
                                 grid_shape, blob_urls, generator, i_blob,
                                 rain_units, heap, rainfall, rainfall_raw, Z,
                                 temp_dir_exists, temp_files, fetchLog, foldLog,
                                 listCalls, printedUnits, titleUnits>>
             [] content.kind = "corrupt" -> SampleFailure("BadGzipFile")
             [] content.kind = "norain" -> SampleFailure("IndexError")

\* lines 148-151: zero the fill values of the sample, read the units
MaskSample ==
    /\ pc = "mask"
    /\ rainfall_sample' = MaskSentinel(rainfall_sample)
    /\ rain_units' = AssignUnits(rain_units, dataset.units)
    /\ pc' = "add"
    /\ UNCHANGED <<error, errorAt, store, single_time_point, grid_shape,
                   blob_urls, generator, i_blob, dataset, heap, rainfall,
                   rainfall_raw, Z, temp_dir_exists, temp_files, fetchLog,
                   foldLog, listCalls, printedUnits, titleUnits>>

\* lines 152-154: rainfall = rainfall + rainfall_sample; dataset.close()
AddSample ==
    /\ pc = "add"
    /\ IF Broadcastable(Shape(Deref(heap, rainfall)), Shape(rainfall_sample))
       THEN /\ heap' = [heap EXCEPT ![rainfall.obj] =
                            Array(Add(Deref(heap, rainfall), rainfall_sample))]
            /\ foldLog' = Append(foldLog, CurrentUrl)
            /\ i_blob' = NextIndex(i_blob)
            /\ pc' = "loop"
            /\ UNCHANGED <<error, errorAt, store, single_time_point, grid_shape,
                           blob_urls, generator, dataset, rainfall_sample,
                           rain_units, rainfall, rainfall_raw, Z,
                           temp_dir_exists, temp_files, fetchLog, listCalls,
                           printedUnits, titleUnits>>
       ELSE SampleFailure("ValueError")

\* lines 156-165: min, max, the 'Ranfall ranges' line, rainfall_raw = rainfall.copy()
Summarise ==
    /\ pc = "summary"
    /\ IF rain_units = Unbound
       THEN Raise("NameError")
       ELSE /\ printedUnits' = rain_units
            /\ rainfall_raw' = CopyTarget(rainfall, "raw")
            /\ heap' = CopyInto(heap, rainfall, rainfall_raw')
            /\ pc' = "prepare"
            /\ UNCHANGED <<error, errorAt, store, single_time_point, grid_shape,
                           blob_urls, generator, i_blob, dataset, rainfall_sample,
                           rain_units, rainfall, Z, temp_dir_exists, temp_files,
                           fetchLog, foldLog, listCalls, titleUnits>>

\* lines 173-184: the shape assertions, rainfall = rainfall_raw[::ds_factor,::ds_factor,]
PrepareIndices ==
    /\ pc = "prepare"
    /\ IF Shape(Deref(heap, rainfall_raw)) # grid_shape
       THEN Raise("AssertionError")
       ELSE /\ rainfall' = Ref(rainfall_raw.obj, rainfall_raw.step * ds_factor)
            /\ pc' = "clip"
            /\ UNCHANGED <<error, errorAt, store, single_time_point, grid_shape,
                           blob_urls, generator, i_blob, dataset, rainfall_sample,
                           rain_units, heap, rainfall_raw, Z, temp_dir_exists,
                           temp_files, fetchLog, foldLog, listCalls,
                           printedUnits, titleUnits>>

\* lines 206-213: Z = rainfall.copy(), clipped and masked in place
ClipForPlot ==
    /\ pc = "clip"
    /\ Z' = CopyTarget(rainfall, "Z")
    /\ heap' = ClipInPlace(CopyInto(heap, rainfall, Z'), Z', Len(blob_urls))
    /\ pc' = "plot"
    /\ UNCHANGED <<error, errorAt, store, single_time_point, grid_shape,
                   blob_urls, generator, i_blob, dataset, rainfall_sample,
                   rain_units, rainfall, rainfall_raw, temp_dir_exists,
                   temp_files, fetchLog, foldLog, listCalls, printedUnits,
                   titleUnits>>

\* lines 216-231: LogNorm, pcolormesh, the title, show; matplotlib may refuse
\* the values (LogNorm of an all-masked or zero range)
Plot ==
    /\ pc = "plot"
    /\ \/ /\ titleUnits' = rain_units
          /\ pc' = "cleanup"
          /\ UNCHANGED <<error, errorAt, store, single_time_point, grid_shape,
                         blob_urls, generator, i_blob, dataset, rainfall_sample,
                         rain_units, heap, rainfall, rainfall_raw, Z,
                         temp_dir_exists, temp_files, fetchLog, foldLog,
                         listCalls, printedUnits>>
       \/ Raise("ValueError")

\* line 239: shutil.rmtree(temp_dir)
CleanUp ==
    /\ pc = "cleanup"
    /\ temp_dir_exists' = FALSE
    /\ temp_files' = {}
    /\ pc' = "done"
    /\ UNCHANGED <<error, errorAt, store, single_time_point, grid_shape,
                   blob_urls, generator, i_blob, dataset, rainfall_sample,
                   rain_units, heap, rainfall, rainfall_raw, Z, fetchLog,
                   foldLog, listCalls, printedUnits, titleUnits>>

Next ==
    \/ DownloadGrid
    \/ DecodeGrid
    \/ SelectSingle
    \/ SelectDay
    \/ ListNext
    \/ InitAccumulator
    \/ NextBlob
    \/ DownloadSample
    \/ DecodeSample
    \/ MaskSample
    \/ AddSample
    \/ Summarise
    \/ PrepareIndices
    \/ ClipForPlot
    \/ Plot
    \/ CleanUp

Spec == Init /\ [][Next]_vars

-----------------------------------------------------------------------------
(* Vocabulary of the properties *)

\* the script has left the selection code (lines 100-119) normally
SelectionDone ==
    /\ pc \notin {"grid_download", "grid_decode", "select", "listing"}
    /\ ~(pc = "aborted" /\ errorAt \in {"grid_download", "grid_decode", "select", "listing"})

\* the loop of lines 133-154 has ended normally: the Aggregate is finalized
Finalized ==
    \/ pc \in {"summary", "prepare", "clip", "plot", "cleanup", "done"}
    \/ pc = "aborted" /\ errorAt \in {"summary", "prepare", "clip", "plot", "cleanup"}

\* the script ended without an exception
Completed == pc = "done"

\* the Aggregate: the array the loop sums into
Aggregate == heap["acc"].data

\* the url names a blob whose fetch or decode cannot succeed
Undecodable(url) == ~HasBlob(url) \/ ContentAt(url).kind # "netcdf"

\* every listed url is a scan whose 'rain' has the reference grid's shape
AllOfGridShape ==
    \A k \in 1..Len(blob_urls) :
        /\ ~Undecodable(blob_urls[k])
        /\ Shape(ContentAt(blob_urls[k]).rain) = grid_shape

\* the 'rain' arrays of the listed urls, in listing order
ListedRain == [k \in 1..Len(blob_urls) |-> ContentAt(blob_urls[k]).rain]

Orderings(n) ==
    { p \in [1..n -> 1..n] : \A a, b \in 1..n : p[a] = p[b] => a = b }

RECURSIVE FoldAll(_, _)
\* the loop body's arithmetic (lines 148 and 152) over a sequence of samples
FoldAll(A, samples) ==
    IF samples = <<>> THEN A
    ELSE FoldAll(Add(A, MaskSentinel(Head(samples))), Tail(samples))

IsPrefix(s, t) == Len(s) <= Len(t) /\ s = SubSeq(t, 1, Len(s))

ScenarioFirst == << <<1, -1>>, <<0, 2>> >>
ScenarioSecond == << <<3, 4>>, <<-1, -1>> >>
\* the sum the end-to-end scenario states, and the sum of the two masked samples
ScenarioSumAsStated == << <<4, 3>>, <<0, 2>> >>
ScenarioSum == << <<4, 4>>, <<0, 2>> >>

-----------------------------------------------------------------------------
(* C1, as stated: from zeros on a (2,2) grid, folding [[1,-1],[0,2]] and then
   [[3,4],[-1,-1]] yields [[4,3],[0,2]]. *)
C1_ScenarioAsStated ==
    Finalized /\ grid_shape = <<2, 2>> /\ AllOfGridShape
        /\ ListedRain = <<ScenarioFirst, ScenarioSecond>>
    => Aggregate = ScenarioSumAsStated

C1_FoldStep ==
    pc = "add" /\ pc' = "loop"
        /\ Shape(dataset.rain) = grid_shape /\ Shape(Aggregate) = grid_shape
    => \A i \in 1..grid_shape[1], j \in 1..grid_shape[2] :
            heap'["acc"].data[i][j] = Aggregate[i][j] + Max(dataset.rain[i][j], 0)

C1_Scenario ==
    Finalized /\ grid_shape = <<2, 2>> /\ AllOfGridShape
        /\ ListedRain = <<ScenarioFirst, ScenarioSecond>>
    => Aggregate = ScenarioSum

(* C1, amended: one fold step adds max(S[i][j], 0) to every cell of the
   Aggregate, for an Aggregate and a Sample of the reference grid's shape; and
   from zeros on a (2,2) grid, folding [[1,-1],[0,2]] then [[3,4],[-1,-1]]
   gives [[4,4],[0,2]]. *)
C1_FoldAddsMaxZero == [][C1_FoldStep]_vars /\ []C1_Scenario

C1_Witness ==
    /\ pc = "summary"
    /\ grid_shape = <<2, 2>>
    /\ AllOfGridShape
    /\ ListedRain = <<ScenarioFirst, ScenarioSecond>>
    /\ Aggregate = ScenarioSum

(* C2: folding the listed samples (all of the reference grid's shape) in any
   permutation of the listing order, from the all-zero Aggregate, gives the
   Aggregate the run finalized. *)
C2_FoldCommutes ==
    Finalized /\ AllOfGridShape
    => \A p \in Orderings(Len(blob_urls)) :
          FoldAll(Zeros(grid_shape), [k \in 1..Len(blob_urls) |-> ListedRain[p[k]]])
            = Aggregate

C2_Witness ==
    /\ Completed
    /\ AllOfGridShape
    /\ Len(blob_urls) = 2
    /\ MaskSentinel(ListedRain[1]) # MaskSentinel(ListedRain[2])

(* C3: a full-day selection that lists zero identifiers is no error: the run
   ends without an exception and the Aggregate is all zeros of the reference
   grid's shape. *)
C3_EmptyDayIsNoError ==
    SelectionDone /\ ~single_time_point /\ blob_urls = <<>>
    => /\ pc # "aborted"
       /\ (Finalized => Aggregate = Zeros(grid_shape))

(* C4: a sample whose shape differs from the reference grid's is never added
   to the Aggregate (it fails instead), and the Aggregate keeps the reference
   grid's shape. *)
C4_NoShapeCoercion ==
    /\ \A k \in 1..Len(foldLog) : Shape(ContentAt(foldLog[k]).rain) = grid_shape
    /\ (rainfall # NoRef => Shape(Aggregate) = grid_shape)

(* C5: when the fetch or decode of the k-th listed sample fails the run
   aborts there: no later sample is fetched or folded, and the partial
   Aggregate is never summarised, backed up, clipped or plotted. *)
C5_AbortAtFailure ==
    /\ \A k \in 1..Len(blob_urls) :
          SelectionDone /\ Undecodable(blob_urls[k])
          => /\ Len(fetchLog) <= k
             /\ Len(foldLog) < k
             /\ ~Finalized
    /\ pc = "aborted" /\ errorAt \in {"download", "decode"}
       => /\ fetchLog = SubSeq(blob_urls, 1, i_blob + 1)
          /\ foldLog = SubSeq(blob_urls, 1, i_blob)
          /\ rainfall_raw = NoRef /\ Z = NoRef
          /\ printedUnits = Unbound /\ titleUnits = Unbound

C5_Witness ==
    /\ pc = "aborted"
    /\ errorAt = "decode"
    /\ Len(blob_urls) = 2
    /\ i_blob = 1
    /\ Len(foldLog) = 1
    /\ Aggregate # Zeros(grid_shape)
    /\ rainfall_raw = NoRef

(* C6: on every run, completed or aborted, the temporary directory and the
   artifacts downloaded into it are deleted by the time the run ends. *)
C6_TempDirReleased ==
    pc \in {"done", "aborted"} => ~temp_dir_exists /\ temp_files = {}

(* C7: single-time mode lists exactly the one url built from (product, year,
   month, day, time) and never calls the container's listing; full-day mode
   lists exactly the container's blobs under product/year/month/day, in the
   container's enumeration order, with one listing call. *)
C7_SelectionModes ==
    SelectionDone
    => IF single_time_point
       THEN /\ blob_urls = << <<"https://ghe.blob.core.windows.net/noaa-ghe/",
                                "rain_rate", "2020", "04", "09",
                                <<"NPR.GEO.GHE.v1.S", "2020", "04", "09", "0200",
                                  ".nc.gz">> >> >>
            /\ listCalls = 0
       ELSE LET under == SelectSeq(store, LAMBDA b :
                            /\ b.name[1] = "rain_rate" /\ b.name[2] = "2020"
                            /\ b.name[3] = "04" /\ b.name[4] = "09")
            IN  /\ blob_urls = [k \in 1..Len(under) |->
                       <<"https://ghe.blob.core.windows.net/noaa-ghe/">> \o under[k].name]
                /\ listCalls = 1

C7_Witness ==
    /\ pc = "init_acc"
    /\ ~single_time_point
    /\ Len(store) = 2
    /\ Len(blob_urls) = 1
    /\ blob_urls[1] = Url(store[2].name)

(* C8: the Aggregate is finalized once, when every listed sample has been
   folded, and stays finalized; from then on no cell of it (nor of its backup
   rainfall_raw, which equals it) changes: summarising, downsampling and
   clipping for the plot do not write to it. *)
C8_Step ==
    Finalized
    => /\ Finalized'
       /\ heap'["acc"] = heap["acc"]
       /\ foldLog' = foldLog
       /\ (rainfall_raw # NoRef
            => rainfall_raw' = rainfall_raw
               /\ heap'[rainfall_raw.obj] = heap[rainfall_raw.obj])
       /\ (rainfall_raw' # NoRef
            => Deref(heap', rainfall_raw') = Aggregate
               /\ heap'[rainfall_raw'.obj].nan = {})

C8_FinalizedIsFrozen ==
    [][C8_Step]_vars /\ [](Finalized => foldLog = blob_urls)

C8_Witness ==
    /\ Completed
    /\ heap["Z"].nan # {}
    /\ heap["acc"].nan = {}
    /\ Deref(heap, rainfall_raw) = Aggregate

(* C9: the listed urls are fetched and folded one at a time in listing order:
   sample k+1 is not fetched before sample k is folded, and a run that does
   not abort has fetched and folded every listed url exactly once. *)
C9_OneAtATimeInOrder ==
    /\ IsPrefix(fetchLog, blob_urls)
    /\ IsPrefix(foldLog, fetchLog)
    /\ Len(fetchLog) <= Len(foldLog) + 1
    /\ (Finalized => fetchLog = blob_urls /\ foldLog = blob_urls)

C9_Witness ==
    /\ Completed
    /\ Len(foldLog) = 2
    /\ foldLog = blob_urls

(* C10: differing units among the samples are accepted silently: reading the
   units never raises, and the units printed after the loop and put in the
   plot title are those of the last listed sample. *)
C10_LastUnitsWin ==
    /\ ~(pc = "aborted" /\ errorAt = "mask")
    /\ Finalized /\ blob_urls # <<>>
       => LET last == ContentAt(blob_urls[Len(blob_urls)]).units
          IN  /\ rain_units = last
              /\ printedUnits \in {Unbound, last}
              /\ titleUnits \in {Unbound, last}
              /\ (pc \in {"clip", "plot", "cleanup", "done"} => printedUnits = last)
              /\ (pc \in {"cleanup", "done"} => titleUnits = last)

C10_Witness ==
    /\ Completed
    /\ Len(blob_urls) = 2
    /\ ContentAt(blob_urls[1]).units # ContentAt(blob_urls[2]).units
    /\ titleUnits = ContentAt(blob_urls[2]).units

=============================================================================
